---- MODULE Spec2Model ----
(***************************************************************************)
(* Model of org_fedora_oscap/data_fetch.py: fetch_data and its helpers     *)
(* _throw_away_headers and _fetch_http_data.                               *)
(*                                                                         *)
(* One behaviour is one call fetch_data(url, out_file, ca_certs).  Strings *)
(* are sequences of one-character strings.  The program counter pc names   *)
(* the statement the call executes next; every blocking library call       *)
(* (makedirs, connect, write, read, open, file write) is one step, with    *)
(* one action for its normal return and one per exception it can raise.    *)
(*                                                                         *)
(* The second part models org_fedora_oscap/ks/oscap.py: an OSCAPdata       *)
(* object and its methods handle_line, finalize and setup, one action per  *)
(* call (specification KsSpec).                                            *)
(***************************************************************************)
EXTENDS Naturals, Sequences, FiniteSets

\* ---------------------------------------------------------------- bounds
\* longest run of plain bytes between two header terminators in a response
MaxSeg == 1
\* largest number of header terminators the server puts into a response
MaxTerms == 2
\* longest ksdata.packages.packageList before the first call of setup
MaxPkgs == 2

\* ------------------------------------------------------------- constants
READ_BYTES == 4096

CR == "\r"
LF == "\n"
\* the match of "\r\n\r\n"
TERM == <<CR, LF, CR, LF>>

\* --------------------------------------------------------- string helpers
Min(a, b) == IF a < b THEN a ELSE b

\* s.startswith(p)
StartsWith(s, p) == Len(s) >= Len(p) /\ SubSeq(s, 1, Len(p)) = p

\* s[k:] with k counted from 0 as in Python
Drop(s, k) == SubSeq(s, k + 1, Len(s))

\* index (from 1) of the first "/" of s at or after index k, 0 if none
FirstSlashFrom(s, k) ==
    IF \E i \in k..Len(s) : s[i] = "/"
    THEN CHOOSE i \in k..Len(s) :
             s[i] = "/" /\ \A j \in k..(i - 1) : s[j] # "/"
    ELSE 0

\* index (from 1) of the last "/" of s, 0 if none
LastSlash(s) ==
    IF \E i \in 1..Len(s) : s[i] = "/"
    THEN CHOOSE i \in 1..Len(s) :
             s[i] = "/" /\ \A j \in (i + 1)..Len(s) : s[j] # "/"
    ELSE 0

\* number of "/" characters at the end of s
RECURSIVE TrailingSlashes(_)
TrailingSlashes(s) ==
    IF Len(s) > 0 /\ s[Len(s)] = "/"
    THEN 1 + TrailingSlashes(SubSeq(s, 1, Len(s) - 1))
    ELSE 0

\* os.path.dirname(p): the head up to the last "/", without its trailing
\* slashes unless it consists of slashes only
dirname(p) ==
    LET head == SubSeq(p, 1, LastSlash(p))
    IN  IF head # <<>> /\ TrailingSlashes(head) # Len(head)
        THEN SubSeq(head, 1, Len(head) - TrailingSlashes(head))
        ELSE head

\* ------------------------------------------------------------ URL parsing
HTTP_PREFIX == <<"h", "t", "t", "p", ":", "/", "/">>
HTTPS_PREFIX == <<"h", "t", "t", "p", "s", ":", "/", "/">>

\* URL_RE.match(url) for URL_RE_STR = (https?)://([^/]+)(/.*) : the groups
\* (protocol, server, path), or ok = FALSE when the pattern does not match.
\* The server is the non-empty run of characters up to the first "/" after
\* the "://", the path is everything from that "/" on.
URL_RE_match(u) ==
    LET pre   == IF StartsWith(u, HTTPS_PREFIX) THEN HTTPS_PREFIX
                 ELSE IF StartsWith(u, HTTP_PREFIX) THEN HTTP_PREFIX
                 ELSE <<>>
        k     == Len(pre) + 1
        slash == FirstSlashFrom(u, k)
    IN  IF pre = <<>> \/ slash = 0 \/ slash = k
        THEN [ok |-> FALSE, protocol |-> "", server |-> <<>>, path |-> <<>>]
        ELSE [ok       |-> TRUE,
              protocol |-> IF pre = HTTPS_PREFIX THEN "https" ELSE "http",
              server   |-> SubSeq(u, k, slash - 1),
              path     |-> SubSeq(u, slash, Len(u))]

\* ------------------------------------------------------- header stripping
\* index (from 1) of the first occurrence of TERM in d, 0 if none
\* (re.search("\r\n\r\n", data))
TermStart(d) ==
    IF \E i \in 1..Len(d) : i + 3 <= Len(d) /\ SubSeq(d, i, i + 3) = TERM
    THEN CHOOSE i \in 1..Len(d) :
             /\ i + 3 <= Len(d)
             /\ SubSeq(d, i, i + 3) = TERM
             /\ \A j \in 1..(i - 1) : SubSeq(d, j, j + 3) # TERM
    ELSE 0

\* _throw_away_headers cutting at match.start() instead of match.end(): the
\* terminator stays in front of rest
_throw_away_headers_fromStart(d) ==
    LET start == TermStart(d)
    IN  IF start = 0
        THEN [done |-> FALSE, rest |-> <<>>]
        ELSE [done |-> TRUE, rest |-> Drop(d, start - 1)]

\* _throw_away_headers(data): (done, rest)
_throw_away_headers(d) ==
    LET start == TermStart(d)
        end   == start + 3      \* match.end(), as a count of bytes of d
    IN  IF start = 0
        THEN [done |-> FALSE, rest |-> <<>>]
        ELSE IF end < Len(d)
             THEN [done |-> TRUE, rest |-> Drop(d, end)]
             ELSE [done |-> TRUE, rest |-> <<>>]

\* ---------------------------------------------------------------- inputs
URLS == { <<"h","t","t","p",":","/","/","h","/","p">>,
          <<"h","t","t","p","s",":","/","/","h","/","p">>,
          <<"h","t","t","p",":","/","/","h">>,
          <<"h","t","t","p","s",":","/","/","h">>,
          <<"h","t","t","p",":","/","/","/","p">>,
          <<"f","t","p",":","/","/","h","/","p">>,
          <<>> }

\* "", a bare file name, and a file inside a directory
OUT_FILES == { <<>>, <<"f">>, <<"d", "/", "f">> }

\* None or "", and a path to a PEM file
CA_CERTS == { <<>>, <<"c">> }

\* what out_file holds before the call when it exists; "o" is no response byte
OLD_CONTENT == <<"o">>

\* what stands between two header terminators of a response: a run of at
\* most MaxSeg bytes "x" (a byte that is neither CR nor LF), or a line end
Segments == {[i \in 1..k |-> "x"] : k \in 0..MaxSeg} \cup {<<CR, LF>>}

\* responses of the server: segments separated by at most MaxTerms header
\* terminators
RECURSIVE ResponsesWith(_)
ResponsesWith(n) ==
    IF n = 0
    THEN Segments
    ELSE {r \o TERM \o s : r \in ResponsesWith(n - 1), s \in Segments}

Responses == UNION {ResponsesWith(n) : n \in 0..MaxTerms}

\* ----------------------------------------------------------------- state
VARIABLES
    url, out_file, ca_certs,    \* the arguments of fetch_data
    dirExists,                  \* os.path.isdir(out_dir)
    fileExists, fileContent,    \* the file at out_file
    fileExists0,                \* whether the file existed before the call
    dirExists0,                 \* whether the directory existed before the call
    opens,                      \* number of open(out_file, "w") calls made
    pc,                         \* the statement executed next
    err,                        \* the exception that left fetch_data
    fault,                      \* the exception the failing library call raised
    sockCreated,                \* socket.socket() has been called
    tls,                        \* sock is the ssl.wrap_socket() wrapper
    port_num,                   \* the port to connect to, 0 before it is set
    sockConnected,              \* sock.connect returned
    sockClosed,                 \* sock.close() has been called
    reqSent,                    \* the GET request has been written
    sockRead,                   \* sock.read has been called
    resp,                       \* the bytes the server sends before closing
    pos,                        \* bytes of resp the reads have returned so far
    eofReads,                   \* reads of the header phase that returned "",
                                \* counted modulo 2
    hdrEnd,                     \* pos after the read that ended the header loop
    bodyRead,                   \* sock.read has been called after that read
    data, done, rest,           \* the locals of _fetch_http_data
    self,                       \* the fields of the OSCAPdata object
    packageList,                \* ksdata.packages.packageList
    ksRaised,                   \* the exception the last method call raised
    lastCall                    \* the method of OSCAPdata called last

vars == <<url, out_file, ca_certs, fileExists0, dirExists0, dirExists, fileExists, fileContent, opens,
          pc, err, fault, sockCreated, tls, port_num, sockConnected, sockClosed,
          reqSent, sockRead, resp, pos, eofReads, hdrEnd, bodyRead, data, done,
          rest, self, packageList, ksRaised, lastCall>>

\* the OSCAPdata object and the kickstart data
ksv == <<self, packageList, ksRaised, lastCall>>

\* what a call of fetch_data never changes: its arguments, the file system
\* before it, and the kickstart data
args == <<url, out_file, ca_certs, fileExists0, dirExists0, ksv>>
fsys == <<dirExists, fileExists, fileContent, opens>>
sock == <<sockCreated, tls, port_num, sockConnected, sockClosed, reqSent, sockRead>>
strm == <<resp, pos, eofReads, hdrEnd, bodyRead>>
locs == <<data, done, rest>>

\* OSCAPdata.__init__: every field is the empty string
OSCAPdata_init ==
    [content_type |-> <<>>, content_url |-> <<>>, datastream_id |-> <<>>,
     xccdf_id |-> <<>>, profile_id |-> <<>>, xccdf_path |-> <<>>,
     cpe_path |-> <<>>, content_name |-> <<>>, certificates |-> <<>>]

\* a new OSCAPdata object no method of which has been called
KsFresh ==
    /\ self = OSCAPdata_init
    /\ packageList = <<>>
    /\ ksRaised = "none"
    /\ lastCall = "none"

Init ==
    /\ KsFresh
    /\ url \in URLS
    /\ out_file \in OUT_FILES
    /\ ca_certs \in CA_CERTS
    /\ dirExists \in BOOLEAN
    /\ fileExists \in BOOLEAN
    \* "" is no directory and no file; a file lies in an existing directory
    /\ dirname(out_file) = <<>> => ~dirExists
    /\ out_file = <<>> => ~fileExists
    /\ (fileExists /\ dirname(out_file) # <<>>) => dirExists
    /\ fileContent = IF fileExists THEN OLD_CONTENT ELSE <<>>
    /\ fileExists0 = fileExists
    /\ dirExists0 = dirExists
    /\ opens = 0
    /\ pc = "START"
    /\ err = "none"
    /\ fault = "none"
    /\ sockCreated = FALSE
    /\ tls = FALSE
    /\ port_num = 0
    /\ sockConnected = FALSE
    /\ sockClosed = FALSE
    /\ reqSent = FALSE
    /\ sockRead = FALSE
    /\ resp = <<>>
    /\ pos = 0
    /\ eofReads = 0
    /\ hdrEnd = 0
    /\ bodyRead = FALSE
    /\ data = <<>>
    /\ done = FALSE
    /\ rest = <<>>

\* an exception e leaves fetch_data; f is what the library call raised
Raise(e, f) ==
    /\ pc' = "FAILED"
    /\ err' = e
    /\ fault' = f

\* ------------------------------------------------------------- fetch_data
\* MakeDirs without the call of os.makedirs: the directory stays missing
MakeDirs_skipped ==
    /\ pc = "START"
    /\ dirExists \/ dirname(out_file) # <<>>
    /\ pc' = "DISPATCH"
    /\ UNCHANGED <<args, fsys, err, fault, sock, strm, locs>>

\* lines 73-76: create the directory of out_file if it is missing
MakeDirs ==
    /\ pc = "START"
    /\ dirExists \/ dirname(out_file) # <<>>
    /\ dirExists' = TRUE
    /\ pc' = "DISPATCH"
    /\ UNCHANGED <<args, fileExists, fileContent, opens, err, fault, sock,
                   strm, locs>>

\* line 76 when out_dir is "": os.makedirs("") raises OSError, which nothing
\* catches
MakeDirsError ==
    /\ pc = "START"
    /\ ~dirExists
    /\ dirname(out_file) = <<>>
    /\ Raise("OSError", "OSError")
    /\ UNCHANGED <<args, fsys, sock, strm, locs>>

\* lines 78-82: dispatch on the URL prefix
Dispatch ==
    /\ pc = "DISPATCH"
    /\ IF StartsWith(url, HTTP_PREFIX) \/ StartsWith(url, HTTPS_PREFIX)
       THEN pc' = "VALIDATE" /\ UNCHANGED <<err, fault>>
       ELSE Raise("UnknownURLformatError", "none")
    /\ UNCHANGED <<args, fsys, sock, strm, locs>>

\* ------------------------------------------------------- _fetch_http_data
\* lines 131-147: decompose the URL, check the arguments, choose the port
ValidateRequest ==
    /\ pc = "VALIDATE"
    /\ LET match == URL_RE_match(url)
       IN  IF ~match.ok
           THEN Raise("WrongRequestError", "none") /\ UNCHANGED port_num
           ELSE IF out_file = <<>>
           THEN Raise("WrongRequestError", "none") /\ UNCHANGED port_num
           ELSE IF ca_certs # <<>> /\ match.protocol # "https"
           THEN Raise("WrongRequestError", "none") /\ UNCHANGED port_num
           ELSE /\ port_num' = IF match.protocol = "https" THEN 443 ELSE 80
                /\ pc' = "SOCKET"
                /\ UNCHANGED <<err, fault>>
    /\ UNCHANGED <<args, fsys, sockCreated, tls, sockConnected, sockClosed,
                   reqSent, sockRead, strm, locs>>

\* lines 149-153: create the socket, wrap it when ca_certs is given
CreateSocket ==
    /\ pc = "SOCKET"
    /\ sockCreated' = TRUE
    /\ tls' = (ca_certs # <<>>)
    /\ pc' = "CONNECT"
    /\ UNCHANGED <<args, fsys, err, fault, port_num, sockConnected,
                   sockClosed, reqSent, sockRead, strm, locs>>

\* line 155: connect returns
Connect ==
    /\ pc = "CONNECT"
    /\ sockConnected' = TRUE
    /\ pc' = "REQUEST"
    /\ UNCHANGED <<args, fsys, err, fault, sockCreated, tls, port_num,
                   sockClosed, reqSent, sockRead, strm, locs>>

\* ConnectSSLError without the except clause of lines 156-159: the
\* ssl.SSLError leaves the call as it is
ConnectSSLError_uncaught ==
    /\ pc = "CONNECT"
    /\ tls
    /\ Raise("ssl.SSLError", "ssl.SSLError")
    /\ UNCHANGED <<args, fsys, sock, strm, locs>>

\* ConnectSSLError with the raise of line 159 left out: the error is noted
\* and the function goes on to write the request
ConnectSSLError_noRaise ==
    /\ pc = "CONNECT"
    /\ tls
    /\ pc' = "REQUEST"
    /\ err' = "CertificateValidationError"
    /\ fault' = "ssl.SSLError"
    /\ UNCHANGED <<args, fsys, sock, strm, locs>>

\* lines 155-159: the handshake of the wrapped socket raises ssl.SSLError
ConnectSSLError ==
    /\ pc = "CONNECT"
    /\ tls
    /\ Raise("CertificateValidationError", "ssl.SSLError")
    /\ UNCHANGED <<args, fsys, sock, strm, locs>>

\* line 155: connect raises socket.error (host unreachable, refused, unknown
\* host); the except clause names ssl.SSLError only
ConnectSocketError ==
    /\ pc = "CONNECT"
    /\ Raise("socket.error", "socket.error")
    /\ UNCHANGED <<args, fsys, sock, strm, locs>>

\* lines 161-162 on the wrapped socket: the request is written; the server
\* answers with a response and closes the connection
WriteRequest ==
    /\ pc = "REQUEST"
    /\ tls
    /\ reqSent' = TRUE
    /\ resp' \in Responses
    /\ pc' = "READ_FIRST"
    /\ UNCHANGED <<args, fsys, err, fault, sockCreated, tls, port_num,
                   sockConnected, sockClosed, sockRead, pos, eofReads, hdrEnd,
                   bodyRead, locs>>

\* lines 161-162 on the wrapped socket: the write raises; it is outside
\* the try block
WriteRequestError ==
    /\ pc = "REQUEST"
    /\ tls
    /\ Raise("socket.error", "socket.error")
    /\ UNCHANGED <<args, fsys, sock, strm, locs>>

\* lines 161-162 on the plain socket: socket.socket objects have send and
\* recv but neither write nor read, sock.write raises AttributeError
WriteRequestNoMethod ==
    /\ pc = "REQUEST"
    /\ ~tls
    /\ Raise("AttributeError", "AttributeError")
    /\ UNCHANGED <<args, fsys, sock, strm, locs>>

\* sock.read(READ_BYTES): the chunks a read can return at position p, the
\* empty string once the server has closed after the last byte
ReadResults(p) ==
    IF p = Len(resp)
    THEN {<<>>}
    ELSE {SubSeq(resp, p + 1, p + n) : n \in 1..Min(READ_BYTES, Len(resp) - p)}

\* ReadBegin with open(out_file, "w") moved in front of the first read
ReadBegin_opensFirst ==
    /\ pc = "READ_FIRST"
    /\ \E chunk \in ReadResults(pos) :
          /\ data' = chunk
          /\ pos' = pos + Len(chunk)
          /\ eofReads' = IF chunk = <<>> THEN (eofReads + 1) % 2 ELSE eofReads
          /\ done' = _throw_away_headers(chunk).done
          /\ rest' = _throw_away_headers(chunk).rest
          /\ hdrEnd' = IF _throw_away_headers(chunk).done
                       THEN pos + Len(chunk) ELSE hdrEnd
    /\ fileExists' = TRUE
    /\ fileContent' = <<>>
    /\ opens' = opens + 1
    /\ sockRead' = TRUE
    /\ pc' = "HEADERS"
    /\ UNCHANGED <<args, dirExists, err, fault, sockCreated, tls, port_num,
                   sockConnected, sockClosed, reqSent, resp, bodyRead>>

\* lines 166-169: the first read and the first look for the end of headers
ReadBegin ==
    /\ pc = "READ_FIRST"
    /\ \E chunk \in ReadResults(pos) :
          /\ data' = chunk
          /\ pos' = pos + Len(chunk)
          /\ eofReads' = IF chunk = <<>> THEN (eofReads + 1) % 2 ELSE eofReads
          /\ done' = _throw_away_headers(chunk).done
          /\ rest' = _throw_away_headers(chunk).rest
          /\ hdrEnd' = IF _throw_away_headers(chunk).done
                       THEN pos + Len(chunk) ELSE hdrEnd
    /\ sockRead' = TRUE
    /\ pc' = "HEADERS"
    /\ UNCHANGED <<args, fsys, err, fault, sockCreated, tls, port_num,
                   sockConnected, sockClosed, reqSent, resp, bodyRead>>

\* lines 170-172: one iteration of the loop that throws away headers; once
\* the server has closed, the read returns "" and the iteration changes
\* nothing but the count of such reads
ReadHeaders ==
    /\ pc = "HEADERS"
    /\ ~done
    /\ \E chunk \in ReadResults(pos) :
          /\ data' = chunk
          /\ pos' = pos + Len(chunk)
          /\ eofReads' = IF chunk = <<>> THEN (eofReads + 1) % 2 ELSE eofReads
          /\ done' = _throw_away_headers(chunk).done
          /\ rest' = _throw_away_headers(chunk).rest
          /\ hdrEnd' = IF _throw_away_headers(chunk).done
                       THEN pos + Len(chunk) ELSE hdrEnd
    /\ UNCHANGED <<args, fsys, pc, err, fault, sock, resp, bodyRead>>

\* TakeRest reading the next chunk whether or not rest is empty: the
\* remainder of the chunk that held the terminator is dropped
TakeRest_dropsRest ==
    /\ pc = "HEADERS"
    /\ done
    /\ \E chunk \in ReadResults(pos) :
          data' = chunk /\ pos' = pos + Len(chunk)
    /\ bodyRead' = TRUE
    /\ pc' = "OPEN"
    /\ UNCHANGED <<args, fsys, err, fault, sock, resp, eofReads, hdrEnd, done,
                   rest>>

\* line 175: data = rest or sock.read(READ_BYTES)
TakeRest ==
    /\ pc = "HEADERS"
    /\ done
    /\ IF rest # <<>>
       THEN data' = rest /\ UNCHANGED <<pos, bodyRead>>
       ELSE /\ \E chunk \in ReadResults(pos) :
                  data' = chunk /\ pos' = pos + Len(chunk)
            /\ bodyRead' = TRUE
    /\ pc' = "OPEN"
    /\ UNCHANGED <<args, fsys, err, fault, sock, resp, eofReads, hdrEnd, done,
                   rest>>

\* lines 166, 171, 175, 180-182: a read before the file is open raises
\* IOError
ReadError ==
    /\ \/ pc = "READ_FIRST"
       \/ pc = "HEADERS" /\ ~done
       \/ pc = "HEADERS" /\ done /\ rest = <<>>
    /\ sockRead' = TRUE
    /\ Raise("FetchError", "IOError")
    /\ UNCHANGED <<args, fsys, sockCreated, tls, port_num, sockConnected,
                   sockClosed, reqSent, strm, locs>>

\* line 176: open(out_file, "w") creates or truncates the file
OpenFile ==
    /\ pc = "OPEN"
    /\ fileExists' = TRUE
    /\ fileContent' = <<>>
    /\ opens' = opens + 1
    /\ pc' = "STREAM"
    /\ UNCHANGED <<args, dirExists, err, fault, sock, strm, locs>>

\* lines 176, 180-182: open raises IOError
OpenFileError ==
    /\ pc = "OPEN"
    /\ Raise("FetchError", "IOError")
    /\ UNCHANGED <<args, fsys, sock, strm, locs>>

\* lines 177-179: one iteration of the write loop
WriteChunk ==
    /\ pc = "STREAM"
    /\ data # <<>>
    /\ fileContent' = fileContent \o data
    /\ \E chunk \in ReadResults(pos) :
          data' = chunk /\ pos' = pos + Len(chunk)
    /\ bodyRead' = TRUE
    /\ UNCHANGED <<args, dirExists, fileExists, opens, pc, err, fault, sock,
                   resp, eofReads, hdrEnd, done, rest>>

\* lines 178, 180-182: fobj.write raises IOError
WriteChunkError ==
    /\ pc = "STREAM"
    /\ data # <<>>
    /\ Raise("FetchError", "IOError")
    /\ UNCHANGED <<args, fsys, sock, strm, locs>>

\* lines 179, 180-182: the chunk is written, the next read raises IOError
StreamReadError ==
    /\ pc = "STREAM"
    /\ data # <<>>
    /\ fileContent' = fileContent \o data
    /\ Raise("FetchError", "IOError")
    /\ UNCHANGED <<args, dirExists, fileExists, opens, sock, strm, locs>>

\* line 177 with data empty: the loop and the with block end, the call returns
Finish ==
    /\ pc = "STREAM"
    /\ data = <<>>
    /\ pc' = "COMPLETE"
    /\ UNCHANGED <<args, fsys, err, fault, sock, strm, locs>>

Next ==
    \/ MakeDirs
    \/ MakeDirsError
    \/ Dispatch
    \/ ValidateRequest
    \/ CreateSocket
    \/ Connect
    \/ ConnectSSLError
    \/ ConnectSocketError
    \/ WriteRequest
    \/ WriteRequestError
    \/ WriteRequestNoMethod
    \/ ReadBegin
    \/ ReadHeaders
    \/ TakeRest
    \/ ReadError
    \/ OpenFile
    \/ OpenFileError
    \/ WriteChunk
    \/ WriteChunkError
    \/ StreamReadError
    \/ Finish

Spec == Init /\ [][Next]_vars

\* the statements that return normally or raise on every execution; the
\* interpreter runs the next statement of the single thread as soon as the
\* previous library call has returned
Progress ==
    \/ MakeDirs
    \/ MakeDirsError
    \/ Dispatch
    \/ ValidateRequest
    \/ CreateSocket
    \/ Connect
    \/ WriteRequest
    \/ WriteRequestNoMethod
    \/ ReadBegin
    \/ ReadHeaders
    \/ TakeRest
    \/ OpenFile
    \/ WriteChunk
    \/ Finish

\* no library call blocks for ever: the server sends its finite response
\* and closes, every call that does not raise returns
FairSpec == Spec /\ WF_vars(Progress)

\* ============================================================ OSCAPdata
SUPPORTED_CONTENT_TYPES == {<<"datastream">>, <<"RPM">>}

SUPPORTED_URL_PREFIXES == {HTTP_PREFIX, HTTPS_PREFIX}

REQUIRED_PACKAGES == <<"openscap", "openscap-utils">>

\* characters str.strip() removes
Whitespace == {" ", "\t"}

\* s.lstrip(chars), s.rstrip(chars), s.strip(chars)
RECURSIVE lstrip(_, _)
lstrip(s, chars) ==
    IF s # <<>> /\ Head(s) \in chars THEN lstrip(Tail(s), chars) ELSE s

RECURSIVE rstrip(_, _)
rstrip(s, chars) ==
    IF s # <<>> /\ s[Len(s)] \in chars
    THEN rstrip(SubSeq(s, 1, Len(s) - 1), chars)
    ELSE s

strip(s, chars) == rstrip(lstrip(s, chars), chars)

\* s.partition(sep): what is before the first sep and what is after it
partition(s, sep) ==
    IF \E i \in 1..Len(s) : s[i] = sep
    THEN LET i == CHOOSE i \in 1..Len(s) :
                      s[i] = sep /\ \A j \in 1..(i - 1) : s[j] # sep
         IN  [pre |-> SubSeq(s, 1, i - 1), post |-> Drop(s, i)]
    ELSE [pre |-> s, post |-> <<>>]

\* s.rsplit("/", 1): the parts around the last "/", s alone when it has none
rsplit(s) ==
    IF LastSlash(s) = 0
    THEN <<s>>
    ELSE <<SubSeq(s, 1, LastSlash(s) - 1), Drop(s, LastSlash(s))>>

\* s.endswith(suffix)
endswith(s, suffix) ==
    Len(s) >= Len(suffix) /\ Drop(s, Len(s) - Len(suffix)) = suffix

DOT_RPM == <<".", "r", "p", "m">>

\* the result of a _parse_* method: what it raises and the fields it leaves
Parsed(raised, fields) == [raised |-> raised, self |-> fields]

\* _parse_content_type with the assignment in front of the test
_parse_content_type_assignsFirst(value) ==
    IF value \in SUPPORTED_CONTENT_TYPES
    THEN Parsed("none", [self EXCEPT !.content_type = value])
    ELSE Parsed("KickstartValueError", [self EXCEPT !.content_type = value])

\* lines 110-116
_parse_content_type(value) ==
    IF value \in SUPPORTED_CONTENT_TYPES
    THEN Parsed("none", [self EXCEPT !.content_type = value])
    ELSE Parsed("KickstartValueError", self)

\* lines 118-131
_parse_content_url(value) ==
    IF \E prefix \in SUPPORTED_URL_PREFIXES : StartsWith(value, prefix)
    THEN LET parts == rsplit(value)
         IN  IF Len(parts) # 2
             THEN Parsed("KickstartValueError",
                         [self EXCEPT !.content_url = value])
             ELSE Parsed("none", [self EXCEPT !.content_url = value,
                                              !.content_name = parts[2]])
    ELSE Parsed("KickstartValueError", self)

\* lines 133-154: the parsers that store the value as it is
_parse_datastream_id(value) == Parsed("none", [self EXCEPT !.datastream_id = value])
_parse_xccdf_id(value) == Parsed("none", [self EXCEPT !.xccdf_id = value])
_parse_profile_id(value) == Parsed("none", [self EXCEPT !.profile_id = value])
_parse_xccdf_path(value) == Parsed("none", [self EXCEPT !.xccdf_path = value])
_parse_cpe_path(value) == Parsed("none", [self EXCEPT !.cpe_path = value])
_parse_certificates(value) == Parsed("none", [self EXCEPT !.certificates = value])

\* lines 166-186: the dictionary lookup actions[pre] and the call; a key that
\* is not in the dictionary raises KeyError, turned into KickstartParseError
actions(pre, post) ==
    CASE pre = <<"content-type">>  -> _parse_content_type(post)
      [] pre = <<"content-url">>   -> _parse_content_url(post)
      [] pre = <<"datastream-id">> -> _parse_datastream_id(post)
      [] pre = <<"profile">>       -> _parse_profile_id(post)
      [] pre = <<"xccdf-id">>      -> _parse_xccdf_id(post)
      [] pre = <<"xccdf-path">>    -> _parse_xccdf_path(post)
      [] pre = <<"cpe-path">>      -> _parse_cpe_path(post)
      [] pre = <<"certificates">>  -> _parse_certificates(post)
      [] OTHER                     -> Parsed("KickstartParseError", self)

\* a line "key = value"; a key is one element, the other characters of a
\* line are one element each
KeyValue(key, value) == <<key, " ", "=", " ">> \o value

\* the lines handle_line is called with
LINES == {
    KeyValue("content-type", <<"datastream">>),
    KeyValue("content-type", <<"RPM">>),
    KeyValue("content-type", <<"tarball">>),
    <<" ", "content-type", "=", "\"", "RPM", "\"", " ">>,
    <<"content-type">>,
    KeyValue("content-url", HTTP_PREFIX \o <<"h", "/", "c">>),
    KeyValue("content-url", HTTPS_PREFIX \o <<"h", "/", "c">> \o DOT_RPM),
    KeyValue("content-url", HTTP_PREFIX \o <<"h">>),
    KeyValue("content-url", <<"f", "t", "p", ":", "/", "/", "h", "/", "c">>),
    KeyValue("profile", <<"p">>),
    <<"profile", "=">>,
    KeyValue("xccdf-path", <<"/", "x">>),
    KeyValue("datastream-id", <<"d">>),
    KeyValue("certificates", <<"/", "k">>),
    KeyValue("foo", <<"1">>),
    <<>> }

\* the fetch of the first part does not run while the kickstart is parsed
FetchIdle ==
    /\ url = <<>> /\ out_file = <<>> /\ ca_certs = <<>>
    /\ dirExists = FALSE /\ dirExists0 = FALSE
    /\ fileExists = FALSE /\ fileExists0 = FALSE /\ fileContent = <<>>
    /\ opens = 0 /\ pc = "START" /\ err = "none" /\ fault = "none"
    /\ sockCreated = FALSE /\ tls = FALSE /\ port_num = 0
    /\ sockConnected = FALSE /\ sockClosed = FALSE /\ reqSent = FALSE
    /\ sockRead = FALSE /\ resp = <<>> /\ pos = 0 /\ eofReads = 0
    /\ hdrEnd = 0 /\ bodyRead = FALSE
    /\ data = <<>> /\ done = FALSE /\ rest = <<>>

fetchv == <<url, out_file, ca_certs, fileExists0, dirExists0, fsys, pc, err,
            fault, sock, strm, locs>>

\* packages a kickstart file can ask for
PACKAGES == {"openscap", "openscap-utils", "vim"}

KsInit ==
    /\ FetchIdle
    /\ self = OSCAPdata_init
    /\ packageList \in UNION {[1..n -> PACKAGES] : n \in 0..MaxPkgs}
    /\ ksRaised = "none"
    /\ lastCall = "none"

\* lines 156-186: handle_line(line)
handle_line ==
    \E line \in LINES :
        LET stripped == strip(line, Whitespace)
            parts    == partition(stripped, "=")
            pre      == strip(parts.pre, Whitespace)
            post     == strip(strip(parts.post, Whitespace), {"\""})
            result   == actions(pre, post)
        IN  /\ self' = result.self
            /\ ksRaised' = result.raised
            /\ lastCall' = "handle_line"
            /\ UNCHANGED <<packageList, fetchv>>

\* finalize_raises without the last test of finalize, lines 211-214
finalize_raises_noSuffixTest(f) ==
    IF f.content_type = <<>> THEN "KickstartValueError"
    ELSE IF f.content_url = <<>> THEN "KickstartValueError"
    ELSE IF f.profile_id = <<>> THEN "KickstartValueError"
    ELSE IF f.content_type = <<"RPM">> /\ f.xccdf_path = <<>>
    THEN "KickstartValueError"
    ELSE "none"

\* lines 195-214: the exception finalize raises for the fields f
finalize_raises(f) ==
    IF f.content_type = <<>> THEN "KickstartValueError"
    ELSE IF f.content_url = <<>> THEN "KickstartValueError"
    ELSE IF f.profile_id = <<>> THEN "KickstartValueError"
    ELSE IF f.content_type = <<"RPM">> /\ f.xccdf_path = <<>>
    THEN "KickstartValueError"
    ELSE IF f.content_type = <<"RPM">> /\ ~endswith(f.content_url, DOT_RPM)
    THEN "KickstartValueError"
    ELSE "none"

\* lines 188-214: finalize()
finalize ==
    /\ ksRaised' = finalize_raises(self)
    /\ lastCall' = "finalize"
    /\ UNCHANGED <<self, packageList, fetchv>>

\* AddRequired without the test of line 235: every required package is
\* appended
RECURSIVE AddRequired_always(_, _)
AddRequired_always(list, n) ==
    IF n = 0
    THEN list
    ELSE Append(AddRequired_always(list, n - 1), REQUIRED_PACKAGES[n])

\* lines 234-236: the loop over the first n required packages
RECURSIVE AddRequired(_, _)
AddRequired(list, n) ==
    IF n = 0
    THEN list
    ELSE LET before == AddRequired(list, n - 1)
             pkg    == REQUIRED_PACKAGES[n]
         IN  IF \E i \in 1..Len(before) : before[i] = pkg
             THEN before
             ELSE Append(before, pkg)

\* lines 216-236: setup(storage, ksdata, instclass)
setup ==
    /\ packageList' = AddRequired(packageList, Len(REQUIRED_PACKAGES))
    /\ ksRaised' = "none"
    /\ lastCall' = "setup"
    /\ UNCHANGED <<self, fetchv>>

KsNext ==
    \/ handle_line
    \/ finalize
    \/ setup

KsSpec == KsInit /\ [][KsNext]_vars

\* ------------------------------------------- the loop as a pure function
RECURSIVE Concat(_)
Concat(cs) == IF cs = <<>> THEN <<>> ELSE Head(cs) \o Concat(Tail(cs))

\* lines 166-179 run on a connection whose reads return the chunks of cs in
\* turn and the empty string from then on: whether the call returns, and the
\* bytes it writes to out_file.  The header loop ends at the first chunk
\* that holds a whole terminator and never ends when there is none; the
\* write loop then writes rest and every later chunk.
StripChunks(cs) ==
    LET hits == {i \in 1..Len(cs) : _throw_away_headers(cs[i]).done}
    IN  IF hits = {}
        THEN [returns |-> FALSE, body |-> <<>>]
        ELSE LET i == CHOOSE h \in hits : \A g \in hits : h <= g
             IN  [returns |-> TRUE,
                  body    |-> _throw_away_headers(cs[i]).rest
                                  \o Concat(SubSeq(cs, i + 1, Len(cs)))]

\* ------------------------------------------------------------ properties
Terminal == pc \in {"COMPLETE", "FAILED"}

Taxonomy == {"WrongRequestError", "UnknownURLformatError",
             "CertificateValidationError", "FetchError"}

NoSocketUse == ~sockCreated /\ ~sockConnected /\ ~reqSent /\ ~sockRead

HasScheme(u) == StartsWith(u, HTTP_PREFIX) \/ StartsWith(u, HTTPS_PREFIX)

\* the response r delivered one byte per read
OneByteChunks(r) == [i \in 1..Len(r) |-> <<r[i]>>]

\* every byte of r after its first header terminator
BodyOf(r) == Drop(r, TermStart(r) + 3)

\* C1: a fetch that completes leaves out_file holding exactly the bytes of
\* the response after its first \r\n\r\n, whatever the reads were and
\* whatever the file held before.
C1_BodyVerbatim ==
    pc = "COMPLETE" =>
        /\ TermStart(resp) # 0
        /\ fileExists
        /\ fileContent = BodyOf(resp)

\* C2: stripping the headers of a response delivered one byte per read and
\* of the same response delivered in a single read reconstructs the same
\* body.
C2_ChunkingIndependent ==
    reqSent =>
        StripChunks(OneByteChunks(resp)).body = StripChunks(<<resp>>).body

\* C3: every fetch eventually reaches COMPLETE or FAILED, also when the end
\* of the stream comes while no read has held a header terminator.
C3_Terminates == <>Terminal

\* C4: a fetch that fails once it has its socket raises one of the four
\* kinds of the taxonomy: a TLS failure at connect is a
\* CertificateValidationError, every other failure of a socket or file
\* operation is a FetchError, and no other exception leaves the call.
C4_ClosedTaxonomy ==
    (pc = "FAILED" /\ sockCreated) =>
        /\ err \in Taxonomy
        /\ fault = "ssl.SSLError" => err = "CertificateValidationError"
        /\ fault \in {"socket.error", "IOError"} => err = "FetchError"

\* C5: with ca_certs given and an http:// URL the call fails with
\* WrongRequestError and never creates, connects, writes or reads a socket.
C5_CertsNeedHttps ==
    (ca_certs # <<>> /\ StartsWith(url, HTTP_PREFIX)) =>
        /\ NoSocketUse
        /\ pc # "COMPLETE"
        /\ pc = "FAILED" => err = "WrongRequestError"

\* C6: with out_file = "" the call fails with WrongRequestError, for every
\* url and ca_certs that pass the other checks.
C6_EmptyOutFile ==
    (/\ out_file = <<>>
     /\ URL_RE_match(url).ok
     /\ ~(ca_certs # <<>> /\ URL_RE_match(url).protocol # "https")
     /\ Terminal) =>
        (pc = "FAILED" /\ err = "WrongRequestError")

\* C7: a URL that starts with neither http:// nor https:// fails with
\* UnknownURLformatError, a URL with one of the prefixes that does not
\* decompose as scheme://host/path fails with WrongRequestError, whatever
\* the other arguments are, and neither opens a socket.
C7_ErrorByUrlShape ==
    /\ ~HasScheme(url) =>
          /\ NoSocketUse
          /\ pc # "COMPLETE"
          /\ pc = "FAILED" => err = "UnknownURLformatError"
    /\ (HasScheme(url) /\ ~URL_RE_match(url).ok) =>
          /\ NoSocketUse
          /\ pc # "COMPLETE"
          /\ pc = "FAILED" => err = "WrongRequestError"

\* C8: when the call has ended, a socket it created has been closed.
C8_SocketReleased == (Terminal /\ sockCreated) => sockClosed

\* C9: when the TLS handshake fails at connect the call raises
\* CertificateValidationError, no request has been sent, nothing has been
\* read, and out_file is as it was before the call: not created, not
\* truncated, not written.
C9_CertFailureLeavesFile ==
    fault = "ssl.SSLError" =>
        /\ ca_certs # <<>>
        /\ pc = "FAILED"
        /\ err = "CertificateValidationError"
        /\ ~reqSent
        /\ ~sockRead
        /\ opens = 0
        /\ fileExists = fileExists0
        /\ fileContent = IF fileExists0 THEN OLD_CONTENT ELSE <<>>

\* a handshake failed while out_file existed
C9_Witness ==
    /\ fault = "ssl.SSLError"
    /\ pc = "FAILED"
    /\ fileExists0
    /\ fileContent = OLD_CONTENT

\* C10: when the response is a header block ending in \r\n\r\n with nothing
\* after it, the fetch completes with out_file existing and empty, unless
\* a library call raises first.
C10_EmptyBodyCompletes ==
    (reqSent /\ TermStart(resp) # 0 /\ BodyOf(resp) = <<>>)
        ~> (\/ pc = "COMPLETE" /\ fileExists /\ fileContent = <<>>
            \/ pc = "FAILED")

\* offset in resp of the first byte after the terminator that ended the
\* header loop: the read ended at hdrEnd and left rest behind the terminator
RestStart == hdrEnd - Len(rest)

\* C11: once a read has held a whole \r\n\r\n, what is written is the rest
\* of that chunk after the terminator followed by every chunk read later, in
\* order and once each: the bytes written and the chunk waiting to be written
\* are the response from the end of that terminator up to the last byte
\* read; with an empty rest a further read is made before the end of the
\* stream is decided.
C11_RemainderThenChunks ==
    done =>
        /\ RestStart >= 4
        /\ SubSeq(resp, RestStart - 3, RestStart) = TERM
        /\ rest = SubSeq(resp, RestStart + 1, hdrEnd)
        /\ pc = "OPEN" => data = SubSeq(resp, RestStart + 1, pos)
        /\ pc = "STREAM" =>
              fileContent \o data = SubSeq(resp, RestStart + 1, pos)
        /\ pc = "COMPLETE" =>
              /\ fileContent = SubSeq(resp, RestStart + 1, Len(resp))
              /\ bodyRead
        /\ (pc \in {"OPEN", "STREAM", "COMPLETE"} /\ rest = <<>>) => bodyRead

\* a fetch completed after writing a non-empty rest and at least one later
\* chunk
C11_Witness ==
    /\ pc = "COMPLETE"
    /\ rest # <<>>
    /\ Len(fileContent) > Len(rest)

\* C12: the scheme selects the transport: an http:// URL is connected in
\* plain text on port 80, an https:// URL through TLS on port 443, with or
\* without ca_certs.
C12_TransportByScheme ==
    sockConnected =>
        IF StartsWith(url, HTTPS_PREFIX)
        THEN tls /\ port_num = 443
        ELSE ~tls /\ port_num = 80

\* the phase of the state machine summary a statement belongs to:
\* START 0, VALIDATED 1, CONNECTED 2, HEADERS 3, STREAMING 4, COMPLETE 5,
\* FAILED 6
PhaseRank(p) ==
    CASE p \in {"START", "DISPATCH", "VALIDATE"} -> 0
      [] p \in {"SOCKET", "CONNECT"}             -> 1
      [] p \in {"REQUEST", "READ_FIRST"}         -> 2
      [] p = "HEADERS"                           -> 3
      [] p \in {"OPEN", "STREAM"}                -> 4
      [] p = "COMPLETE"                          -> 5
      [] p = "FAILED"                            -> 6

\* C13: no step takes a fetch back to an earlier phase or from headers done
\* to not done, and once an error has been raised no step touches the
\* socket, the file system or the stream.
C13_ForwardOnly ==
    [][/\ PhaseRank(pc') >= PhaseRank(pc)
       /\ done => done'
       /\ (pc = "FAILED" \/ err # "none") =>
             (pc' = "FAILED" /\ UNCHANGED <<sock, fsys, strm, err>>)]_vars

\* a fetch failed after it had opened the file
C13_Witness ==
    /\ pc = "FAILED"
    /\ err = "FetchError"
    /\ opens = 1

\* C14: out_file is opened at most once, only when the end of the headers
\* has been found, and before it is opened the file is as it was before the
\* call: in particular a fetch that fails in, or is still in, the header
\* phase has not changed it.
C14_OpenedOnceAfterHeaders ==
    /\ opens <= 1
    /\ opens = 1 => (done /\ fileExists /\ pc \in {"STREAM", "COMPLETE", "FAILED"})
    /\ opens = 0 =>
          /\ fileExists = fileExists0
          /\ fileContent = IF fileExists0 THEN OLD_CONTENT ELSE <<>>
    /\ ~done => opens = 0

\* a fetch failed in the header phase and the old file is still there
C14_Witness ==
    /\ pc = "FAILED"
    /\ sockRead
    /\ ~done
    /\ fileExists0
    /\ fileContent = OLD_CONTENT

\* C15: the missing directory of out_file is created before any socket or
\* file operation, also for a request that is then rejected with
\* UnknownURLformatError or WrongRequestError.
C15_DirectoryFirst ==
    /\ pc = "START" => (NoSocketUse /\ opens = 0 /\ dirExists = dirExists0)
    /\ sockCreated => dirExists
    /\ opens > 0 => dirExists
    /\ err \in {"UnknownURLformatError", "WrongRequestError"} => dirExists

\* a request was rejected for its URL after its directory had been created
C15_Witness ==
    /\ err = "UnknownURLformatError"
    /\ ~dirExists0
    /\ dirExists

\* s is what is left of t after dropping some bytes from its front
IsSuffix(s, t) == Len(s) <= Len(t) /\ s = Drop(t, Len(t) - Len(s))

\* what has been written to out_file is a run of bytes of the response that
\* begins at or after the end of its first terminator
WrittenIsBodyRun ==
    opens = 1 =>
        /\ TermStart(resp) # 0
        /\ RestStart >= TermStart(resp) + 3
        /\ RestStart + Len(fileContent) <= Len(resp)
        /\ fileContent = SubSeq(resp, RestStart + 1, RestStart + Len(fileContent))

\* C16 as claimed: no header byte is ever written, and the file a fetch
\* leaves when it ends, completed or failed, is a suffix of the body.
C16_FinalFileIsSuffix ==
    /\ WrittenIsBodyRun
    /\ (Terminal /\ opens = 1) => IsSuffix(fileContent, BodyOf(resp))

\* C16 amended: no header byte is ever written, and the file of a fetch
\* that completes is a suffix of the body.
C16_NoHeaderByteWritten ==
    /\ WrittenIsBodyRun
    /\ (pc = "COMPLETE" /\ opens = 1) => IsSuffix(fileContent, BodyOf(resp))

\* a fetch completed with a file shorter than the body: the first
\* terminator was missed and a later one found
C16_Witness ==
    /\ pc = "COMPLETE"
    /\ fileContent # <<>>
    /\ Len(fileContent) < Len(BodyOf(resp))

\* the condition of C17 on the fields f
FinalizeAccepts(f) ==
    /\ f.content_type # <<>>
    /\ f.content_url # <<>>
    /\ f.profile_id # <<>>
    /\ f.content_type = <<"RPM">> =>
          (f.xccdf_path # <<>> /\ endswith(f.content_url, DOT_RPM))

\* C17: after any handle_line calls, finalize returns exactly when
\* content_type, content_url and profile_id are non-empty and, for content
\* type RPM, xccdf_path is non-empty and content_url ends with ".rpm";
\* otherwise it raises KickstartValueError; it changes no field.
C17_FinalizeAccepts ==
    [][lastCall' = "finalize" =>
          /\ self' = self
          /\ ksRaised' \in {"none", "KickstartValueError"}
          /\ ksRaised' = "none" <=> FinalizeAccepts(self)]_vars

\* finalize has accepted an RPM content
C17_Witness ==
    /\ lastCall = "finalize"
    /\ ksRaised = "none"
    /\ self.content_type = <<"RPM">>

\* the part of s after its last "/", all of s when it has none
AfterLastSlash(s) == Drop(s, LastSlash(s))

\* the fields of C18
FieldsWellFormed(f) ==
    /\ f.content_type = <<>> \/ f.content_type \in SUPPORTED_CONTENT_TYPES
    /\ \/ f.content_url = <<>>
       \/ StartsWith(f.content_url, HTTP_PREFIX)
       \/ StartsWith(f.content_url, HTTPS_PREFIX)
    /\ f.content_name = AfterLastSlash(f.content_url)

\* C18: before and after every handle_line call content_type is "" or a
\* supported type, content_url is "" or starts with http:// or https://,
\* and content_name is what follows the last "/" of content_url; a call
\* that raises raises a kickstart error and leaves every field as it was.
C18_FieldsWellFormed ==
    [][/\ FieldsWellFormed(self)
       /\ FieldsWellFormed(self')
       /\ (lastCall' = "handle_line" /\ ksRaised' # "none") =>
             /\ self' = self
             /\ ksRaised' \in {"KickstartValueError", "KickstartParseError"}]_vars

\* a line was rejected after a content URL had been accepted
C18_Witness ==
    /\ lastCall = "handle_line"
    /\ ksRaised = "KickstartValueError"
    /\ self.content_url # <<>>
    /\ self.content_name # <<>>

\* number of times pkg occurs in list
Count(pkg, list) == Cardinality({i \in 1..Len(list) : list[i] = pkg})

Required == {REQUIRED_PACKAGES[i] : i \in 1..Len(REQUIRED_PACKAGES)}

\* C19: after setup every required package is in packageList, the list of
\* before is the beginning of the list of after, a required package that was
\* there is not appended again and one that was missing is appended once,
\* and a setup after a setup changes nothing.
C19_SetupIdempotent ==
    [][lastCall' = "setup" =>
          /\ \A pkg \in Required : Count(pkg, packageList') >= 1
          /\ Len(packageList') >= Len(packageList)
          /\ SubSeq(packageList', 1, Len(packageList)) = packageList
          /\ \A pkg \in PACKAGES :
                Count(pkg, packageList') =
                    IF pkg \in Required /\ Count(pkg, packageList) = 0
                    THEN 1
                    ELSE Count(pkg, packageList)
          /\ lastCall = "setup" => packageList' = packageList]_vars

\* setup has appended the one required package that was missing behind what
\* was there
C19_Witness ==
    /\ lastCall = "setup"
    /\ packageList = <<"vim", "openscap-utils", "openscap">>

====
